---------------------------- MODULE Spec2Model ----------------------------
(***************************************************************************)
(* A model of the SVG-to-animated-Lottie converter.                        *)
(*                                                                         *)
(*   animations.py     the animation classes and AnimationFactory          *)
(*   svg_to_lottie.py  create_basic_animation, create_complex_animation    *)
(*                     and the svg_to_animated_lottie pipeline             *)
(*   app.py            the /convert handler                                *)
(*                                                                         *)
(* Values of animatable properties are vectors of numbers: Point(x, y) is  *)
(* <<x, y>>, a scalar v (opacity, rotation) is <<v>>, Python's None is     *)
(* <<>>.  A property is [value, keyframes]; keyframes is the list of       *)
(* [time, value] pairs in the order add_keyframe was called.               *)
(***************************************************************************)
EXTENDS Integers, Sequences, FiniteSets, TLC

VARIABLES
    \* ---- animations.py: the factory and one transform it animates
    animations,     \* AnimationFactory._animations, in insertion order
    variant,        \* the BaseAnimation instance the last create returned
    transform,      \* the transform the variants are applied to
    prev,           \* the transform as it was before the last apply
    last,           \* the last call: its name and arguments
    raised,         \* the exception the last call raised, if any
    \* ---- animations.py: a caller's session with the factory
    listed,         \* the list the last get_available_types returned, as the
                    \* caller has it now
    instances,      \* the identities of the instances created so far
    ncalls,         \* how many calls the caller has made
    \* ---- svg_to_lottie.py: one call of svg_to_animated_lottie
    cpc,            \* where the call is
    args,           \* its arguments: base64_svg, animation_type, custom_effects, fps, size
    scene,          \* what import_svg returns for the SVG given
    rand,           \* what random.random() returns during the call
    doc,            \* lottie_animation
    before,         \* lottie_animation as it was before the animation step
    base,           \* lottie_animation.to_dict(), before the update
    lottie_dict,    \* lottie_dict
    cerr,           \* the exception the call raised, if any
    cerr_at,        \* the step that raised it
    temp_svg,       \* the temporary SVG file: "none", "exists" or "removed"
    \* ---- app.py: one request to /convert
    hpc,            \* where the handler is
    request,        \* the JSON body of the request
    response,       \* the status and body returned
    temp_out        \* the temporary output file: "none", "exists" or "removed"

fvars == <<animations, variant, transform, prev, last, raised>>

cvars == <<cpc, args, scene, rand, doc, before, base, lottie_dict, cerr, cerr_at,
           temp_svg>>

rvars == <<listed, instances, ncalls>>

hvars == <<hpc, request, response, temp_out>>

vars == <<fvars, cvars, rvars, hvars>>

-----------------------------------------------------------------------------
(* Bounds of the model *)

MaxDuration == 80
MaxDim == 2
MaxLayers == 2
MaxCalls == 4

(* Program constants *)

DefaultDim == 512
BasicDuration == 60
DefaultComplexDuration == 90
ImportedFrames == 60

Durations == 1..MaxDuration
Dims == (0..MaxDim) \cup {DefaultDim}
Sizes == Dims \X Dims

-----------------------------------------------------------------------------
(* The transform and its animatable properties *)

None == <<>>
Point(x, y) == <<x, y>>
Scalar(v) == <<v>>

Channels == {"position", "scale", "rotation", "opacity", "anchor_point"}

Keyframe(time, value) == [time |-> time, value |-> value]

\* property.add_keyframe(time, value): the property becomes animated (its
\* static value is dropped) and the keyframe is appended to its list.
add_keyframe(prop, time, value) ==
    [value |-> None, keyframes |-> Append(prop.keyframes, Keyframe(time, value))]

Static(value) == [value |-> value, keyframes |-> <<>>]

\* A transform as the importer creates it: nothing animated.
FreshTransform ==
    [position     |-> Static(Point(0, 0)),
     scale        |-> Static(Point(100, 100)),
     rotation     |-> Static(Scalar(0)),
     opacity      |-> Static(Scalar(100)),
     anchor_point |-> Static(Point(0, 0))]

\* A transform every channel of which an earlier step has already animated.
AnimatedTransform ==
    [position     |-> add_keyframe(Static(None), 0, Point(7, 7)),
     scale        |-> add_keyframe(Static(None), 0, Point(80, 80)),
     rotation     |-> add_keyframe(Static(None), 0, Scalar(45)),
     opacity      |-> add_keyframe(Static(None), 0, Scalar(50)),
     anchor_point |-> add_keyframe(Static(None), 0, Point(3, 3))]

\* The keyframes a call appended to a channel: what the new list holds beyond the old.
Written(old, new, ch) ==
    SubSeq(new[ch].keyframes, Len(old[ch].keyframes) + 1, Len(new[ch].keyframes))

-----------------------------------------------------------------------------
(* animations.py: the animation classes *)

NoError == [type |-> "None", msg |-> <<>>]
NoVariant == [cls |-> "None", duration |-> 0]

\* BaseAnimation.__init__
BaseAnimation(cls, duration) == [cls |-> cls, duration |-> duration]

\* FadeIn with its last scale keyframe at a fixed frame 60, not at duration
FadeInAnimation_apply_fixed_end(self, t, animation_size) ==
    LET o1 == add_keyframe(t.opacity, 0, Scalar(0))
        o2 == add_keyframe(o1, 30, Scalar(100))
        s1 == add_keyframe(t.scale, 0, Point(100, 100))
        s2 == add_keyframe(s1, 30, Point(100, 100))
        s3 == add_keyframe(s2, 60, Point(100, 100))
    IN  [t EXCEPT !.opacity = o2, !.scale = s3]

\* FadeInAnimation.apply
FadeInAnimation_apply(self, t, animation_size) ==
    LET o1 == add_keyframe(t.opacity, 0, Scalar(0))
        o2 == add_keyframe(o1, 30, Scalar(100))
        s1 == add_keyframe(t.scale, 0, Point(100, 100))
        s2 == add_keyframe(s1, 30, Point(100, 100))
        s3 == add_keyframe(s2, self.duration, Point(100, 100))
    IN  [t EXCEPT !.opacity = o2, !.scale = s3]

\* ScaleUpAnimation.apply
ScaleUpAnimation_apply(self, t, animation_size) ==
    LET s1 == add_keyframe(t.scale, 0, Point(50, 50))
        s2 == add_keyframe(s1, 30, Point(100, 100))
    IN  [t EXCEPT !.scale = s2]

\* The keyframes list of BounceAnimation.apply
BounceKeyframes ==
    << <<0, Point(90, 90)>>, <<15, Point(100, 100)>>, <<30, Point(90, 90)>>,
       <<45, Point(100, 100)>>, <<60, Point(90, 90)>>, <<75, Point(100, 100)>> >>

RECURSIVE AddAll(_, _)
\* for frame, scale in keyframes: prop.add_keyframe(frame, scale)
AddAll(prop, kfs) ==
    IF kfs = <<>> THEN prop
    ELSE AddAll(add_keyframe(prop, Head(kfs)[1], Head(kfs)[2]), Tail(kfs))

\* Bounce that resets opacity as well, clearing what was animated there
BounceAnimation_apply_resets_opacity(self, t, animation_size) ==
    LET s1 == AddAll(t.scale, BounceKeyframes)
        s2 == add_keyframe(s1, self.duration, Point(100, 100))
    IN  [t EXCEPT !.scale = s2, !.opacity = Static(Scalar(100))]

\* BounceAnimation.apply
BounceAnimation_apply(self, t, animation_size) ==
    LET s1 == AddAll(t.scale, BounceKeyframes)
        s2 == add_keyframe(s1, self.duration, Point(100, 100))
    IN  [t EXCEPT !.scale = s2]

\* BottomToCenter that starts from twice the width instead of the height
BottomToCenterAnimation_apply_width(self, t, animation_size) ==
    LET width  == animation_size[1]
        height == animation_size[2]
        p1 == add_keyframe(t.position, 0, Point(0, width * 2))
        p2 == add_keyframe(p1, 30, Point(0, 0))
        s1 == add_keyframe(t.scale, 0, Point(100, 100))
        s2 == add_keyframe(s1, 30, Point(100, 100))
    IN  [t EXCEPT !.position = p2, !.scale = s2]

\* BottomToCenterAnimation.apply; width, height = animation_size
BottomToCenterAnimation_apply(self, t, animation_size) ==
    LET width  == animation_size[1]
        height == animation_size[2]
        start_position == Point(0, height * 2)
        end_position   == Point(0, 0)
        p1 == add_keyframe(t.position, 0, start_position)
        p2 == add_keyframe(p1, 30, end_position)
        s1 == add_keyframe(t.scale, 0, Point(100, 100))
        s2 == add_keyframe(s1, 30, Point(100, 100))
    IN  [t EXCEPT !.position = p2, !.scale = s2]

\* Dynamic dispatch of variant.apply(transform, animation_size)
apply(self, t, animation_size) ==
    CASE self.cls = "FadeInAnimation"  -> FadeInAnimation_apply(self, t, animation_size)
      [] self.cls = "ScaleUpAnimation" -> ScaleUpAnimation_apply(self, t, animation_size)
      [] self.cls = "BounceAnimation"  -> BounceAnimation_apply(self, t, animation_size)
      [] self.cls = "BottomToCenterAnimation" ->
                                  BottomToCenterAnimation_apply(self, t, animation_size)

\* An unpacking that expects three items: width, height, depth
apply_raises_three(self, animation_size) ==
    IF self.cls = "BottomToCenterAnimation" /\ Len(animation_size) # 3
    THEN [type |-> "ValueError", msg |-> <<"not enough values to unpack">>]
    ELSE NoError

\* The tuple unpacking `width, height = animation_size` raises ValueError
\* unless animation_size has exactly two items; the other variants never
\* look at animation_size.
apply_raises(self, animation_size) ==
    IF self.cls = "BottomToCenterAnimation" /\ Len(animation_size) # 2
    THEN [type |-> "ValueError", msg |-> <<"not enough values to unpack">>]
    ELSE NoError

-----------------------------------------------------------------------------
(* animations.py: AnimationFactory *)

\* AnimationFactory._animations
RegisteredAnimations ==
    << [name |-> "fade_in",          cls |-> "FadeInAnimation"],
       [name |-> "scale_up",         cls |-> "ScaleUpAnimation"],
       [name |-> "bounce",           cls |-> "BounceAnimation"],
       [name |-> "bottom_to_center", cls |-> "BottomToCenterAnimation"] >>

\* The keys last registered first
keys_reversed(d) == [i \in 1..Len(d) |-> d[Len(d) + 1 - i].name]

\* dict.keys(), in insertion order
keys(d) == [i \in 1..Len(d) |-> d[i].name]

\* key in dict
has_key(d, k) == \E i \in 1..Len(d) : d[i].name = k

\* dict[key]
lookup(d, k) == d[CHOOSE i \in 1..Len(d) : d[i].name = k].cls

RECURSIVE join_drop_last(_, _)
\* A join that stops one item short
join_drop_last(sep, items) ==
    IF Len(items) <= 1 THEN <<>>
    ELSE IF Len(items) = 2 THEN <<items[1]>>
    ELSE <<items[1], sep>> \o join_drop_last(sep, Tail(items))

RECURSIVE join(_, _)
\* sep.join(items), as the list of the pieces of the resulting string
join(sep, items) ==
    IF Len(items) = 0 THEN <<>>
    ELSE IF Len(items) = 1 THEN <<items[1]>>
    ELSE <<items[1], sep>> \o join(sep, Tail(items))

\* AnimationFactory.get_available_types
get_available_types(d) == keys(d)

\* AnimationFactory.create_animation: the instance returned and the
\* exception raised (one of the two is the None value)
create_animation(d, animation_type, duration) ==
    IF ~has_key(d, animation_type)
    THEN LET available == join(", ", keys(d))
         IN  [variant |-> NoVariant,
              raised  |-> [type |-> "ValueError",
                           msg  |-> <<"Unknown animation type '", animation_type,
                                      "'. Available: ">> \o available]]
    ELSE [variant |-> BaseAnimation(lookup(d, animation_type), duration),
          raised  |-> NoError]

\* Names a caller may ask for: the registered ones and others
TypeNames ==
    {"fade_in", "scale_up", "bounce", "bottom_to_center",
     "rotate", "shake", "nonexistent"}

-----------------------------------------------------------------------------
(* The factory and its variants at work on one transform *)

NoCall == [op |-> "none", name |-> "", duration |-> 0, size |-> <<>>]

FInit ==
    /\ animations = RegisteredAnimations
    /\ variant = NoVariant
    /\ transform \in {FreshTransform, AnimatedTransform}
    /\ prev = transform
    /\ last = NoCall
    /\ raised = NoError

\* variant = AnimationFactory.create_animation(name, duration)
Create(name, duration) ==
    LET r == create_animation(animations, name, duration) IN
    /\ variant = NoVariant
    /\ last.op = "none"
    /\ variant' = r.variant
    /\ raised' = r.raised
    /\ last' = [op |-> "create", name |-> name, duration |-> duration, size |-> <<>>]
    /\ UNCHANGED <<animations, transform, prev>>

\* variant.apply(transform, size), once: a variant is discarded after use
Apply(size) ==
    /\ variant # NoVariant
    /\ last.op = "create"
    /\ raised' = apply_raises(variant, size)
    /\ prev' = transform
    /\ transform' = IF raised' = NoError THEN apply(variant, transform, size)
                    ELSE transform
    /\ last' = [op |-> "apply", name |-> last.name, duration |-> variant.duration,
                size |-> size]
    /\ UNCHANGED <<animations, variant>>

-----------------------------------------------------------------------------
(* A caller's session with the factory: any calls in any order *)

\* A list object that is the registry's own key storage
shared_list(items) == [shared |-> TRUE, items |-> items]

\* list(...): a new list object, which shares nothing with its argument
new_list(items) == [shared |-> FALSE, items |-> items]

NoList == [shared |-> FALSE, items |-> <<"(none)">>]

\* Calling a class: a new object, distinct from all objects made before
new_object(heap) == Len(heap) + 1

\* What a caller may do to a list it holds
Mutations == {"append", "pop", "clear"}

mutated(items, how) ==
    CASE how = "append" -> Append(items, "mine")
      [] how = "pop"    -> IF items = <<>> THEN items ELSE SubSeq(items, 1, Len(items) - 1)
      [] how = "clear"  -> <<>>

\* The registry whose key storage a caller has changed to hold these keys
rekeyed(d, items) ==
    [i \in 1..Len(items) |->
        [name |-> items[i],
         cls  |-> IF has_key(d, items[i]) THEN lookup(d, items[i]) ELSE "None"]]

SessionDurations == {1, MaxDuration}
SessionSizes == {<<0, 0>>, <<MaxDim, DefaultDim>>}

RInit ==
    /\ animations = RegisteredAnimations
    /\ variant = NoVariant
    /\ transform = FreshTransform
    /\ prev = FreshTransform
    /\ last = NoCall
    /\ raised = NoError
    /\ listed = NoList
    /\ instances = <<>>
    /\ ncalls = 0

\* AnimationFactory.create_animation(name, duration)
SessionCreate(name, duration) ==
    LET r == create_animation(animations, name, duration) IN
    /\ ncalls < MaxCalls
    /\ ncalls' = ncalls + 1
    /\ raised' = r.raised
    /\ variant' = IF r.raised = NoError THEN r.variant ELSE variant
    /\ instances' = IF r.raised = NoError
                    THEN Append(instances, new_object(instances))
                    ELSE instances
    /\ last' = [op |-> "create", name |-> name, duration |-> duration, size |-> <<>>]
    /\ UNCHANGED <<animations, transform, prev, listed>>

\* AnimationFactory.get_available_types()
SessionList ==
    /\ ncalls < MaxCalls
    /\ ncalls' = ncalls + 1
    /\ listed' = new_list(get_available_types(animations))
    /\ raised' = NoError
    /\ last' = [op |-> "list", name |-> "", duration |-> 0, size |-> <<>>]
    /\ UNCHANGED <<animations, variant, transform, prev, instances>>

\* The caller changes the list it was given
SessionMutate(how) ==
    /\ ncalls < MaxCalls
    /\ listed # NoList
    /\ ncalls' = ncalls + 1
    /\ listed' = [listed EXCEPT !.items = mutated(@, how)]
    /\ animations' = IF listed.shared THEN rekeyed(animations, listed'.items)
                     ELSE animations
    /\ raised' = NoError
    /\ last' = [op |-> "mutate", name |-> how, duration |-> 0, size |-> <<>>]
    /\ UNCHANGED <<variant, transform, prev, instances>>

\* variant.apply(transform, size) on the instance created last
SessionApply(size) ==
    /\ ncalls < MaxCalls
    /\ variant # NoVariant
    /\ ncalls' = ncalls + 1
    /\ raised' = apply_raises(variant, size)
    /\ prev' = transform
    /\ transform' = IF raised' = NoError THEN apply(variant, transform, size)
                    ELSE transform
    /\ last' = [op |-> "apply", name |-> variant.cls, duration |-> variant.duration,
                size |-> size]
    /\ UNCHANGED <<animations, variant, listed, instances>>

\* No session, while something else runs
RIdle ==
    /\ listed = NoList
    /\ instances = <<>>
    /\ ncalls = 0

-----------------------------------------------------------------------------
(* svg_to_lottie.py: the document, its layers and its serialized form *)

\* A float n/d, kept exact
Float(n, d) == <<n, d>>

Min(a, b) == IF a <= b THEN a ELSE b

\* An update that keeps the values of the keys already present (setdefault)
update_keep_existing(d, other) ==
    [k \in DOMAIN d \cup DOMAIN other |-> IF k \in DOMAIN d THEN d[k] ELSE other[k]]

\* dict.update(other)
update(d, other) ==
    [k \in DOMAIN d \cup DOMAIN other |-> IF k \in DOMAIN other THEN other[k] ELSE d[k]]

\* [f(x) for x in items]
Map(f(_), items) == [i \in 1..Len(items) |-> f(items[i])]

\* The layers import_svg may create: a shape layer, a layer with a transform
\* and no shapes, and a layer with neither.  Each gets the out point of the
\* animation it is added to.
Layer(kind, out_point) ==
    [kind          |-> kind,
     has_transform |-> kind \in {"shape", "null"},
     has_shapes    |-> kind = "shape",
     in_point      |-> 0,
     out_point     |-> out_point,
     transform     |-> FreshTransform]

LayerKinds == {"shape", "null", "bare"}

RECURSIVE SeqsUpTo(_, _)
\* All sequences over S of length at most n
SeqsUpTo(S, n) ==
    IF n = 0 THEN {<<>>}
    ELSE LET shorter == SeqsUpTo(S, n - 1)
         IN  shorter \cup {Append(q, x) : q \in {r \in shorter : Len(r) = n - 1}, x \in S}

\* The metadata block svg_to_animated_lottie writes
FixedMeta == [g |-> "SVG to Lottie Converter", a |-> "", k |-> "", d |-> "", tc |-> ""]

\* Metadata a document may carry from its import
ImportedMeta == [g |-> "importer", a |-> "author", k |-> "", d |-> "", tc |-> ""]

\* The animation import_svg returns: its own size, frame rate and frame
\* range (the importer's 60 frames, or the length of the animation the SVG
\* itself carries), the layers, and metadata or none
ImportedDocument(kinds, in_point, out_point, meta) ==
    LET layer(kind) == Layer(kind, out_point) IN
    [width      |-> DefaultDim,
     height     |-> DefaultDim,
     frame_rate |-> ImportedFrames,
     in_point   |-> in_point,
     out_point  |-> out_point,
     meta       |-> meta,
     layers     |-> Map(layer, kinds)]

NoDocument == ImportedDocument(<<>>, 0, ImportedFrames, None)

\* property.to_dict(): animated with its keyframes, or static with its value
property_to_dict(prop) ==
    IF prop.keyframes # <<>> THEN [a |-> 1, k |-> prop.keyframes]
    ELSE [a |-> 0, k |-> prop.value]

\* transform.to_dict()
transform_to_dict(t) ==
    [p |-> property_to_dict(t.position),
     s |-> property_to_dict(t.scale),
     r |-> property_to_dict(t.rotation),
     o |-> property_to_dict(t.opacity),
     a |-> property_to_dict(t.anchor_point)]

\* layer.to_dict()
layer_to_dict(layer) ==
    LET d == [ty |-> layer.kind, ip |-> layer.in_point, op |-> layer.out_point]
    IN  IF layer.has_transform
        THEN update(d, [ks |-> transform_to_dict(layer.transform)])
        ELSE d

\* lottie_animation.to_dict()
to_dict(a) ==
    LET d == [v  |-> "5.5.2", fr |-> a.frame_rate, ip |-> a.in_point,
              op |-> a.out_point, w |-> a.width, h |-> a.height,
              layers |-> Map(layer_to_dict, a.layers)]
    IN  IF a.meta # None THEN update(d, [meta |-> a.meta]) ELSE d

-----------------------------------------------------------------------------
(* svg_to_lottie.py: create_basic_animation and create_complex_animation *)

\* The body of the loop of create_basic_animation, for one layer
basic_animate_layer(layer, animation_type, duration) ==
    IF ~layer.has_transform THEN layer
    ELSE LET t == layer.transform IN
         CASE animation_type = "fade_in" ->
                [layer EXCEPT !.transform.opacity =
                    add_keyframe(add_keyframe(t.opacity, 0, Scalar(0)), 30, Scalar(100))]
           [] animation_type = "scale_up" ->
                [layer EXCEPT !.transform.scale =
                    add_keyframe(add_keyframe(t.scale, 0, Point(10, 10)),
                                 30, Point(100, 100))]
           [] animation_type = "rotate" ->
                [layer EXCEPT !.transform.rotation =
                    add_keyframe(add_keyframe(t.rotation, 0, Scalar(0)),
                                 duration, Scalar(360))]
           [] animation_type = "bounce" ->
                [layer EXCEPT !.transform.scale =
                    AddAll(t.scale,
                           << <<0, Point(100, 100)>>, <<15, Point(120, 120)>>,
                              <<30, Point(100, 100)>>, <<45, Point(110, 110)>>,
                              <<60, Point(100, 100)>> >>)]
           [] OTHER -> layer

\* create_basic_animation
create_basic_animation(lottie_animation, animation_type) ==
    IF lottie_animation.layers = <<>> THEN lottie_animation
    ELSE LET duration == BasicDuration
             animate(layer) == basic_animate_layer(layer, animation_type, duration)
         IN  [lottie_animation EXCEPT !.out_point = duration,
                                      !.layers = Map(animate, @)]

\* The effects create_complex_animation uses when it is given None
DefaultEffects ==
    [duration    |-> DefaultComplexDuration,
     fade_in     |-> [start |-> 0, end |-> 30],
     scale_pulse |-> [start |-> 30, end |-> 60],
     rotation    |-> [start |-> 60, end |-> 90, degrees |-> 360]]

\* custom_effects=None
NoEffects == [is_none |-> TRUE]

\* dict.get(key, default)
get(d, key, default) == IF key \in DOMAIN d THEN d[key] ELSE default

\* property.get_value(time) of a static property: its value.  Of an animated
\* one the value of the last keyframe at or before the time, the first one
\* if there is none (the conversion only shakes positions that are static).
get_value(prop, time) ==
    IF prop.keyframes = <<>> THEN prop.value
    ELSE LET kfs == prop.keyframes
             earlier == {i \in 1..Len(kfs) : kfs[i].time <= time}
         IN  IF earlier = {} THEN kfs[1].value
             ELSE kfs[CHOOSE i \in earlier : \A j \in earlier : j <= i].value

\* The runs of random.random() a call may see, by what random() * 2 - 1
\* comes to for the n-th draw made for layer l: 0, the lowest value -1, or
\* the two in turn
RandomStreams == {"zero", "low", "mixed"}

random_factor(stream, l, n) ==
    CASE stream = "zero"  -> 0
      [] stream = "low"   -> -1
      [] stream = "mixed" -> IF (l + n \div 2) % 2 = 0 THEN -1 ELSE 0

\* lottie.utils.animation.shake(position_prop, x_radius, y_radius, start_time,
\* end_time, n_frames): n_frames keyframes, the i-th at start_time + i *
\* (end_time - start_time) / n_frames with the start point moved by a random
\* offset within the radii, and one more at end_time back on the start point.
\* (The spans used here are multiples of n_frames, so the frames are whole.)
shake(position_prop, x_radius, y_radius, start_time, end_time, n_frames, stream, l) ==
    LET start == get_value(position_prop, start_time)
        frame(i) ==
            << start_time + (i * (end_time - start_time)) \div n_frames,
               Point(start[1] + random_factor(stream, l, 2 * i + 1) * x_radius,
                     start[2] + random_factor(stream, l, 2 * i + 2) * y_radius) >>
        frames == [i \in 1..n_frames |-> frame(i - 1)]
    IN  add_keyframe(AddAll(position_prop, frames), end_time, start)

\* The last argument of the shake call
ShakeFrames == 5

\* The sub-effects create_complex_animation looks for, in the order it does
SubEffects == <<"fade_in", "scale_pulse", "rotation", "shake">>

\* A loop body that reads start and end of every entry of the effects but
\* the duration, whether or not it is a sub-effect it knows
missing_key_of_any_entry(effects) ==
    LET lacking == {k \in DOMAIN effects \ {"duration"} :
                       ~({"start", "end"} \subseteq DOMAIN effects[k])}
    IN  IF lacking = {} THEN None
        ELSE IF \E k \in lacking : "start" \notin DOMAIN effects[k]
             THEN <<"start">> ELSE <<"end">>

\* The key whose lookup raises KeyError in the loop body: "start" or "end" of
\* the first sub-effect present that lacks it, None if every lookup succeeds
missing_key(effects) ==
    LET lacking == {i \in 1..Len(SubEffects) :
                       /\ SubEffects[i] \in DOMAIN effects
                       /\ ~({"start", "end"} \subseteq DOMAIN effects[SubEffects[i]])}
    IN  IF lacking = {} THEN None
        ELSE LET first == CHOOSE i \in lacking : \A j \in lacking : i <= j
             IN  IF "start" \notin DOMAIN effects[SubEffects[first]]
                 THEN <<"start">> ELSE <<"end">>

\* The body of the loop of create_complex_animation, for layer number l
complex_animate_layer(layer, effects, stream, l) ==
    IF ~layer.has_transform THEN layer
    ELSE LET t == layer.transform
             opacity ==
                 IF "fade_in" \in DOMAIN effects
                 THEN LET fade == effects["fade_in"]
                      IN  add_keyframe(add_keyframe(t.opacity, fade.start, Scalar(0)),
                                       fade.end, Scalar(100))
                 ELSE t.opacity
             scale ==
                 IF "scale_pulse" \in DOMAIN effects
                 THEN LET pulse == effects["scale_pulse"]
                          mid_point == (pulse.start + pulse.end) \div 2
                      IN  AddAll(t.scale,
                                 << <<pulse.start, Point(100, 100)>>,
                                    <<mid_point, Point(130, 130)>>,
                                    <<pulse.end, Point(100, 100)>> >>)
                 ELSE t.scale
             rotation ==
                 IF "rotation" \in DOMAIN effects
                 THEN LET rot == effects["rotation"]
                          degrees == get(rot, "degrees", 360)
                      IN  add_keyframe(add_keyframe(t.rotation, rot.start, Scalar(0)),
                                       rot.end, Scalar(degrees))
                 ELSE t.rotation
             position ==
                 IF "shake" \in DOMAIN effects
                 THEN LET shake_params == effects["shake"]
                      IN  shake(t.position,
                                get(shake_params, "amplitude", 10),
                                get(shake_params, "frequency", 2),
                                shake_params.start, shake_params.end,
                                ShakeFrames, stream, l)
                 ELSE t.position
         IN  [layer EXCEPT !.transform.opacity = opacity,
                           !.transform.scale = scale,
                           !.transform.rotation = rotation,
                           !.transform.position = position]

\* The effects create_complex_animation works with
effects_used(custom_effects) ==
    IF custom_effects = NoEffects THEN DefaultEffects ELSE custom_effects

\* The exception create_complex_animation raises: the KeyError of the first
\* failing lookup, in the first layer that has a transform
create_complex_raises(lottie_animation, custom_effects) ==
    LET effects == effects_used(custom_effects) IN
    IF /\ \E i \in 1..Len(lottie_animation.layers) :
              lottie_animation.layers[i].has_transform
       /\ missing_key(effects) # None
    THEN [type |-> "KeyError", msg |-> missing_key(effects)]
    ELSE NoError

\* create_complex_animation, when it raises nothing
create_complex_animation(lottie_animation, custom_effects, stream) ==
    LET effects == effects_used(custom_effects)
        duration == get(effects, "duration", DefaultComplexDuration)
        layers == lottie_animation.layers
    IN  [lottie_animation EXCEPT
            !.out_point = duration,
            !.layers = [l \in 1..Len(layers) |->
                           complex_animate_layer(layers[l], effects, stream, l)]]

-----------------------------------------------------------------------------
(* svg_to_lottie.py: svg_to_animated_lottie, step by step *)

\* target_width = size[0] if size else 512 (and the same for the height)
target_width(size)  == IF size # None THEN size[1] ELSE DefaultDim
target_height(size) == IF size # None THEN size[2] ELSE DefaultDim

\* fill_scale: both content extents are 100 whatever the layers hold, so the
\* scale is min(w * 0.9 / 100, h * 0.9 / 100) * 100
fill_scale(w, h) == Float(9 * Min(w, h), 10)

\* The second pass over the layers: centre, scale and anchor each transform
center_layer(layer, w, h) ==
    IF ~layer.has_transform THEN layer
    ELSE [layer EXCEPT
            !.transform.position.value = <<w \div 2, h \div 2>>,
            !.transform.scale.value = <<fill_scale(w, h), fill_scale(w, h)>>,
            !.transform.anchor_point.value = <<50, 50>>]

\* The loop over lottie_dict["layers"] after the update, for one layer
fix_layer_dict(layer_dict, w, h) ==
    LET centred ==
            IF "ks" \in DOMAIN layer_dict /\ "p" \in DOMAIN layer_dict.ks
               /\ "k" \in DOMAIN layer_dict.ks.p
            THEN [layer_dict EXCEPT !.ks.p.k = <<w \div 2, h \div 2>>]
            ELSE layer_dict
    IN  update(centred, [w |-> w, h |-> h])

\* lottie_dict.update({...}) with the viewport keys and the metadata
assemble(d, w, h, out_point, fps) ==
    update(d, [w |-> w, h |-> h, ip |-> 0, op |-> out_point, fr |-> fps,
               meta |-> FixedMeta])

AnimationTypes ==
    {"fade_in", "scale_up", "rotate", "bounce", "shake", "bottom_to_center", "complex"}

\* custom_effects a caller may give: sub-effects of every kind, keys that
\* are no sub-effect, and a sub-effect without its start
CustomEffects ==
    { NoEffects,
      [duration |-> 45, fade_in |-> [start |-> 0, end |-> 45]],
      [scale_pulse |-> [start |-> 10, end |-> 25]],
      [duration |-> 60, rotation |-> [start |-> 0, end |-> 60]],
      [duration |-> 50, shake |-> [start |-> 10, end |-> 40, amplitude |-> 4]],
      [duration |-> 45, fade_in |-> [start |-> 0, end |-> 45],
       sparkle |-> [start |-> 0, end |-> 10], glow |-> [level |-> 3]],
      [shake |-> [start |-> 0, end |-> 20], wobble |-> [start |-> 5]],
      [sparkle |-> [start |-> 0, end |-> 10]],
      [fade_in |-> [end |-> 30]] }

ConvDims == {0, MaxDim, DefaultDim}
ConvSizes == {None} \cup (ConvDims \X ConvDims)
FrameRates == {-1, 0, 24, 30}

\* The base64_svg argument, by what it decodes to: SVG markup with the
\* viewBox, width and height attributes of its root (numbers are exact
\* fractions, None is an absent attribute), text that is no XML, or nothing
\* because it is no base64
Svg(viewBox, width, height) ==
    [kind |-> "svg", viewBox |-> viewBox, width |-> width, height |-> height]

PlainSvg == Svg(None, None, None)
NotXml == [kind |-> "not_xml", viewBox |-> None, width |-> None, height |-> None]
NotBase64 == [kind |-> "not_base64", viewBox |-> None, width |-> None, height |-> None]

SvgInputs ==
    { PlainSvg,
      Svg(<<Float(0, 1), Float(0, 1), Float(100, 1), Float(200, 1)>>, None, None),
      Svg(None, Float(505, 10), Float(60, 1)),
      Svg(<<Float(0, 1), Float(0, 1), Float(100, 1)>>, Float(30, 1), Float(40, 1)),
      NotXml,
      NotBase64 }

\* What import_svg may return for the markup: up to MaxLayers layers, and
\* the frame range and metadata of the importer or of the SVG
Scenes ==
    { ImportedDocument(kinds, imported[1], imported[2], imported[3]) :
        kinds \in SeqsUpTo(LayerKinds, MaxLayers),
        imported \in { <<0, ImportedFrames, None>>,
                       <<5, ImportedFrames, ImportedMeta>>,
                       <<0, 40, None>> } }

uses_shake(animation_type, custom_effects) ==
    animation_type = "complex" /\ "shake" \in DOMAIN effects_used(custom_effects)

CInit ==
    /\ cpc = "start"
    /\ \E animation_type \in AnimationTypes, custom_effects \in CustomEffects,
          fps \in FrameRates, size \in ConvSizes, base64_svg \in SvgInputs :
          /\ animation_type # "complex" => custom_effects = NoEffects
          /\ base64_svg # PlainSvg => size = None
          /\ args = [base64_svg |-> base64_svg,
                     animation_type |-> animation_type,
                     custom_effects |-> custom_effects,
                     fps |-> fps, size |-> size]
          /\ rand \in IF uses_shake(animation_type, custom_effects)
                      THEN RandomStreams ELSE {"zero"}
          /\ scene \in IF base64_svg.kind = "svg" THEN Scenes ELSE {NoDocument}
    /\ doc = NoDocument
    /\ before = NoDocument
    /\ base = to_dict(NoDocument)
    /\ lottie_dict = to_dict(NoDocument)
    /\ cerr = NoError
    /\ cerr_at = ""
    /\ temp_svg = "none"

\* A cleanup that leaves the file where it is
keep_file(file) == file

\* if os.path.exists(path): os.unlink(path)
unlink_if_exists(file) == IF file = "exists" THEN "removed" ELSE file

\* The call ends with an exception: one raised inside the try statement
\* passes through its finally clause, one of decode_base64_svg does not
Fail(error) ==
    /\ cpc' = "failed"
    /\ cerr' = error
    /\ cerr_at' = cpc
    /\ temp_svg' = IF cpc = "start" THEN temp_svg ELSE unlink_if_exists(temp_svg)
    /\ UNCHANGED <<args, scene, rand, doc, before, base, lottie_dict>>

\* svg_content = decode_base64_svg(base64_svg), written to the temporary file
Decode ==
    /\ cpc = "start"
    /\ IF args.base64_svg.kind = "not_base64"
       THEN Fail([type |-> "ValueError", msg |-> <<"Failed to decode base64 SVG: ">>])
       ELSE /\ cpc' = "decoded"
            /\ temp_svg' = "exists"
            /\ UNCHANGED <<args, scene, rand, doc, before, base, lottie_dict, cerr, cerr_at>>

\* lottie_animation = import_svg(temp_svg_path)
Import ==
    /\ cpc = "decoded"
    /\ IF args.base64_svg.kind = "not_xml"
       THEN Fail([type |-> "ParseError", msg |-> <<"syntax error">>])
       ELSE /\ doc' = scene
            /\ cpc' = "imported"
            /\ UNCHANGED <<args, scene, rand, before, base, lottie_dict, cerr, cerr_at, temp_svg>>

\* Frame rate, canvas size, and the centring and scaling of every layer
SetDimensions ==
    LET w == target_width(args.size)
        h == target_height(args.size)
        center(layer) == center_layer(layer, w, h)
    IN  /\ cpc = "imported"
        /\ doc' = [doc EXCEPT !.frame_rate = args.fps, !.width = w, !.height = h,
                              !.layers = Map(center, @)]
        /\ cpc' = "sized"
        /\ UNCHANGED <<args, scene, rand, before, base, lottie_dict, cerr, cerr_at, temp_svg>>

\* Apply animations
Animate ==
    LET error == IF args.animation_type = "complex"
                 THEN create_complex_raises(doc, args.custom_effects)
                 ELSE NoError
    IN  /\ cpc = "sized"
        /\ IF error # NoError
           THEN Fail(error)
           ELSE /\ before' = doc
                /\ doc' = IF args.animation_type = "complex"
                          THEN create_complex_animation(doc, args.custom_effects, rand)
                          ELSE create_basic_animation(doc, args.animation_type)
                /\ cpc' = "animated"
                /\ UNCHANGED <<args, scene, rand, base, lottie_dict, cerr, cerr_at, temp_svg>>

\* os.makedirs(output_dir), which the file system may refuse; then
\* lottie_dict = lottie_animation.to_dict(); lottie_dict.update({...})
Assemble ==
    /\ cpc = "animated"
    /\ \/ /\ base' = to_dict(doc)
          /\ lottie_dict' = assemble(base', target_width(args.size),
                                     target_height(args.size), doc.out_point, args.fps)
          /\ cpc' = "assembled"
          /\ UNCHANGED <<args, scene, rand, doc, before, cerr, cerr_at, temp_svg>>
       \/ Fail([type |-> "OSError", msg |-> <<"Permission denied">>])

\* Ensure all layers have proper bounds and transforms
FixLayers ==
    LET w == target_width(args.size)
        h == target_height(args.size)
        fix(layer_dict) == fix_layer_dict(layer_dict, w, h)
    IN  /\ cpc = "assembled"
        /\ lottie_dict' = IF "layers" \in DOMAIN lottie_dict
                          THEN [lottie_dict EXCEPT !.layers = Map(fix, @)]
                          ELSE lottie_dict
        /\ cpc' = "fixed"
        /\ UNCHANGED <<args, scene, rand, doc, before, base, cerr, cerr_at, temp_svg>>

\* json.dump(lottie_dict, f) into output_path, which the file system may
\* refuse, and the return through the finally clause
WriteOutput ==
    /\ cpc = "fixed"
    /\ \/ /\ cpc' = "done"
          /\ temp_svg' = unlink_if_exists(temp_svg)
          /\ UNCHANGED <<args, scene, rand, doc, before, base, lottie_dict, cerr, cerr_at>>
       \/ Fail([type |-> "OSError", msg |-> <<"No space left on device">>])

-----------------------------------------------------------------------------
(* app.py: the /convert handler *)

\* A field the JSON body does not have
Absent == "(absent)"

\* JSON values of the fps field: an integer, or a value that is none ("30")
JsonInt(n) == [is_int |-> TRUE, v |-> n]
NotAnInt == [is_int |-> FALSE, v |-> 0]

\* JSON values of the size field: null or absent, a list, with whether
\* all its items are integers
NoSize == [given |-> FALSE, is_list |-> FALSE, ints |-> FALSE, items |-> <<>>]
JsonList(items, ints) == [given |-> TRUE, is_list |-> TRUE, ints |-> ints, items |-> items]

\* The base64_svg field absent or empty
NoSvg == [kind |-> "absent", viewBox |-> None, width |-> None, height |-> None]

\* The bodies request.get_json() may return: nothing (or a falsy value), a
\* JSON value that is true but no object, an object with its fields
Body(kind, base64_svg, animation_type, custom_effects, fps, size) ==
    [kind |-> kind, base64_svg |-> base64_svg, animation_type |-> animation_type,
     custom_effects |-> custom_effects, fps |-> fps, size |-> size]

NoRequest == Body("empty", NoSvg, Absent, NoEffects, JsonInt(30), NoSize)

Requests ==
    { Body(kind, NoSvg, Absent, NoEffects, JsonInt(30), NoSize) :
        kind \in {"empty", "array"} }
    \cup
    { Body("object", base64_svg, animation_type, custom_effects, fps, size) :
        base64_svg \in {NoSvg, PlainSvg, NotXml, NotBase64},
        animation_type \in {Absent, "rotate", "shake", "fade_in", "complex"},
        custom_effects \in {NoEffects, [fade_in |-> [end |-> 30]]},
        fps \in {JsonInt(-1), JsonInt(0), JsonInt(30), NotAnInt},
        size \in {NoSize, JsonList(<<MaxDim, DefaultDim>>, TRUE),
                  JsonList(<<0, -1>>, TRUE),
                  JsonList(<<1, 2, 3>>, TRUE), JsonList(<<1, 2>>, FALSE)} }

Response(status, error, message) ==
    [status |-> status, error |-> error, message |-> message]

NoResponse == Response(0, "", <<>>)

\* Handling with one except clause, which takes every exception for invalid input
error_response_all_invalid(e) ==
    Response(400, "Invalid input data", e.msg)

\* The except clauses of the handler: any ValueError is invalid input
\* (400), every other exception an internal server error (500), both with
\* str(e) as the message
error_response(e) ==
    IF e.type = "ValueError"
    THEN Response(400, "Invalid input data", e.msg)
    ELSE Response(500, "Internal server error", e.msg)

\* data.get('animation_type', 'rotate')
animation_type_of(data) ==
    IF data.animation_type = Absent THEN "rotate" ELSE data.animation_type

valid_animations == <<"rotate", "shake">>

\* The response the handler returns before any conversion, NoResponse if
\* the request passes every check
validate(data) ==
    IF data.kind = "empty"
    THEN Response(400, "No JSON data provided", <<"Request body must contain valid JSON">>)
    ELSE IF data.kind # "object"
    THEN error_response([type |-> "AttributeError",
                         msg  |-> <<"'list' object has no attribute 'get'">>])
    ELSE IF data.base64_svg = NoSvg
    THEN Response(400, "Missing required field", <<"base64_svg field is required">>)
    ELSE IF \A i \in 1..Len(valid_animations) : valid_animations[i] # animation_type_of(data)
    THEN Response(400, "Invalid animation type",
                  <<"animation_type must be one of: ">> \o join(", ", valid_animations))
    ELSE IF data.size.given
            /\ (~data.size.is_list \/ Len(data.size.items) # 2 \/ ~data.size.ints)
    THEN Response(400, "Invalid size format",
                  <<"size must be an array of two integers [width, height]">>)
    ELSE IF ~data.fps.is_int \/ data.fps.v <= 0
    THEN Response(400, "Invalid fps value", <<"fps must be a positive integer">>)
    ELSE NoResponse

\* A request arrives; the conversion it may start has not begun
HInit ==
    /\ hpc = "received"
    /\ request \in Requests
    /\ response = NoResponse
    /\ temp_out = "none"
    /\ cpc = "idle"
    /\ args = [base64_svg |-> PlainSvg, animation_type |-> "fade_in",
               custom_effects |-> NoEffects, fps |-> 30, size |-> None]
    /\ scene \in IF request.base64_svg.kind = "svg" /\ validate(request) = NoResponse
                 THEN Scenes ELSE {NoDocument}
    /\ rand = "zero"
    /\ doc = NoDocument
    /\ before = NoDocument
    /\ base = to_dict(NoDocument)
    /\ lottie_dict = to_dict(NoDocument)
    /\ cerr = NoError
    /\ cerr_at = ""
    /\ temp_svg = "none"

\* The handler up to the call of svg_to_animated_lottie
Validate ==
    /\ hpc = "received"
    /\ IF validate(request) # NoResponse
       THEN /\ response' = validate(request)
            /\ hpc' = "responded"
            /\ UNCHANGED <<request, temp_out, cvars>>
       ELSE /\ hpc' = "converting"
            /\ temp_out' = "exists"
            /\ cpc' = "start"
            /\ args' = [base64_svg |-> request.base64_svg,
                        animation_type |-> animation_type_of(request),
                        custom_effects |-> request.custom_effects,
                        fps |-> request.fps.v,
                        size |-> IF request.size.given THEN request.size.items ELSE None]
            /\ UNCHANGED <<request, response, scene, rand, doc, before, base,
                           lottie_dict, cerr, cerr_at, temp_svg>>

\* The conversion returned or raised: the success response, or the one of
\* the except clause that takes the exception, after the finally clause has
\* removed the temporary output file
Respond ==
    /\ hpc = "converting"
    /\ cpc \in {"done", "failed"}
    /\ response' = IF cpc = "done"
                   THEN Response(200, "", <<"SVG successfully converted to Lottie animation">>)
                   ELSE error_response(cerr)
    /\ temp_out' = unlink_if_exists(temp_out)
    /\ hpc' = "responded"
    /\ UNCHANGED <<request, cvars>>

\* No request being handled
HIdle ==
    /\ hpc = "idle"
    /\ request = NoRequest
    /\ response = NoResponse
    /\ temp_out = "none"

\* The factory at rest, while a conversion runs
FIdle ==
    /\ animations = RegisteredAnimations
    /\ variant = NoVariant
    /\ transform = FreshTransform
    /\ prev = FreshTransform
    /\ last = NoCall
    /\ raised = NoError

\* No conversion running, while the factory is used
CIdle ==
    /\ cpc = "idle"
    /\ args = [base64_svg |-> PlainSvg, animation_type |-> "fade_in",
               custom_effects |-> NoEffects, fps |-> 30, size |-> None]
    /\ scene = NoDocument
    /\ rand = "zero"
    /\ doc = NoDocument
    /\ before = NoDocument
    /\ base = to_dict(NoDocument)
    /\ lottie_dict = to_dict(NoDocument)
    /\ cerr = NoError
    /\ cerr_at = ""
    /\ temp_svg = "none"

\* The factory and its variants in use
Init == FInit /\ CIdle /\ RIdle /\ HIdle

Next ==
    \/ \E name \in TypeNames, duration \in Durations :
          Create(name, duration) /\ UNCHANGED <<cvars, rvars, hvars>>
    \/ \E size \in Sizes : Apply(size) /\ UNCHANGED <<cvars, rvars, hvars>>

Spec == Init /\ [][Next]_vars

\* One conversion
ConvInit == CInit /\ FIdle /\ RIdle /\ HIdle

ConvNext ==
    \/ Decode /\ UNCHANGED <<fvars, rvars, hvars>>
    \/ Import /\ UNCHANGED <<fvars, rvars, hvars>>
    \/ SetDimensions /\ UNCHANGED <<fvars, rvars, hvars>>
    \/ Animate /\ UNCHANGED <<fvars, rvars, hvars>>
    \/ Assemble /\ UNCHANGED <<fvars, rvars, hvars>>
    \/ FixLayers /\ UNCHANGED <<fvars, rvars, hvars>>
    \/ WriteOutput /\ UNCHANGED <<fvars, rvars, hvars>>

ConvSpec == ConvInit /\ [][ConvNext]_vars

\* One request to /convert
HandlerInit == HInit /\ FIdle /\ RIdle

HandlerNext ==
    \/ Validate /\ UNCHANGED <<fvars, rvars>>
    \/ Decode /\ UNCHANGED <<fvars, rvars, hvars>>
    \/ Import /\ UNCHANGED <<fvars, rvars, hvars>>
    \/ SetDimensions /\ UNCHANGED <<fvars, rvars, hvars>>
    \/ Animate /\ UNCHANGED <<fvars, rvars, hvars>>
    \/ Assemble /\ UNCHANGED <<fvars, rvars, hvars>>
    \/ FixLayers /\ UNCHANGED <<fvars, rvars, hvars>>
    \/ WriteOutput /\ UNCHANGED <<fvars, rvars, hvars>>
    \/ Respond /\ UNCHANGED <<fvars, rvars>>

HandlerSpec == HandlerInit /\ [][HandlerNext]_vars

\* One conversion, called directly or by the handler for a request
CallInit == ConvInit \/ HandlerInit

CallSpec == CallInit /\ [][HandlerNext]_vars

\* One caller's session with the factory
SessionInit == RInit /\ CIdle /\ HIdle

SessionNext ==
    \/ \E name \in TypeNames, duration \in SessionDurations :
          SessionCreate(name, duration) /\ UNCHANGED <<cvars, hvars>>
    \/ SessionList /\ UNCHANGED <<cvars, hvars>>
    \/ \E how \in Mutations : SessionMutate(how) /\ UNCHANGED <<cvars, hvars>>
    \/ \E size \in SessionSizes : SessionApply(size) /\ UNCHANGED <<cvars, hvars>>

SessionSpec == SessionInit /\ [][SessionNext]_vars

-----------------------------------------------------------------------------
(* Properties of the factory and its variants *)

Range(seq) == {seq[i] : i \in 1..Len(seq)}

AfterApply(cls) == last.op = "apply" /\ raised = NoError /\ variant.cls = cls

WrittenNow(ch) == Written(prev, transform, ch)

\* The channels each variant is documented to write
Documented(cls) ==
    CASE cls = "FadeInAnimation"         -> {"opacity", "scale"}
      [] cls = "ScaleUpAnimation"        -> {"scale"}
      [] cls = "BounceAnimation"         -> {"scale"}
      [] cls = "BottomToCenterAnimation" -> {"position", "scale"}

\* C1: one apply call of FadeIn, ScaleUp or Bounce created with duration d
\* writes exactly the keyframes of the schedule table: FadeIn opacity 0@0,
\* 100@30 and scale 100%@0, 100%@30, 100%@d; ScaleUp scale 50%@0, 100%@30;
\* Bounce scale 90%@0, 100%@15, 90%@30, 100%@45, 90%@60, 100%@75, 100%@d;
\* and nothing in any other channel.
C1_ScheduleTable ==
    LET d == last.duration IN
    /\ AfterApply("FadeInAnimation") =>
         /\ WrittenNow("opacity") =
              << Keyframe(0, <<0>>), Keyframe(30, <<100>>) >>
         /\ WrittenNow("scale") =
              << Keyframe(0, <<100, 100>>), Keyframe(30, <<100, 100>>),
                 Keyframe(d, <<100, 100>>) >>
         /\ \A ch \in Channels \ {"opacity", "scale"} : WrittenNow(ch) = <<>>
    /\ AfterApply("ScaleUpAnimation") =>
         /\ WrittenNow("scale") =
              << Keyframe(0, <<50, 50>>), Keyframe(30, <<100, 100>>) >>
         /\ \A ch \in Channels \ {"scale"} : WrittenNow(ch) = <<>>
    /\ AfterApply("BounceAnimation") =>
         /\ WrittenNow("scale") =
              << Keyframe(0, <<90, 90>>), Keyframe(15, <<100, 100>>),
                 Keyframe(30, <<90, 90>>), Keyframe(45, <<100, 100>>),
                 Keyframe(60, <<90, 90>>), Keyframe(75, <<100, 100>>),
                 Keyframe(d, <<100, 100>>) >>
         /\ \A ch \in Channels \ {"scale"} : WrittenNow(ch) = <<>>

C1_Witness ==
    /\ AfterApply("FadeInAnimation")
    /\ last.name = "fade_in"
    /\ last.duration = 45
    /\ prev = AnimatedTransform

\* C2: create with a name that is not registered raises the unknown-type
\* error, returns no variant, and the message holds every registered name.
C2_UnknownNameListsAll ==
    (last.op = "create" /\ last.name \notin Range(get_available_types(animations))) =>
        /\ raised.type = "ValueError"
        /\ variant = NoVariant
        /\ \A n \in Range(get_available_types(animations)) : n \in Range(raised.msg)

C2_Witness ==
    /\ last.op = "create"
    /\ last.name = "nonexistent"
    /\ last.duration = 60
    /\ raised.type = "ValueError"

\* C3: for every listed name, positive duration and canvas size, create
\* returns a variant and apply on it completes without raising.
C3_ListedNamesApplyCleanly ==
    /\ (last.op = "create" /\ last.name \in Range(get_available_types(animations))) =>
          (raised = NoError /\ variant # NoVariant /\ variant.duration = last.duration)
    /\ last.op = "apply" =>
          (raised = NoError /\ last.name \in Range(get_available_types(animations)))

C3_Witness ==
    /\ last.op = "apply"
    /\ last.name = "bottom_to_center"
    /\ last.size = <<DefaultDim, 0>>
    /\ raised = NoError

\* C4: an apply call leaves every channel outside the variant's documented
\* ones exactly as it was, and in the documented ones only adds keyframes
\* after those already present.
C4_ChannelIsolation ==
    (last.op = "apply" /\ raised = NoError) =>
        /\ \A ch \in Channels \ Documented(variant.cls) : transform[ch] = prev[ch]
        /\ \A ch \in Documented(variant.cls) :
              /\ Len(transform[ch].keyframes) > Len(prev[ch].keyframes)
              /\ SubSeq(transform[ch].keyframes, 1, Len(prev[ch].keyframes))
                    = prev[ch].keyframes

C4_Witness ==
    /\ AfterApply("BounceAnimation")
    /\ last.duration = 60
    /\ prev = AnimatedTransform
    /\ transform.opacity = AnimatedTransform.opacity
    /\ Len(transform.scale.keyframes) = 8

NonDecreasing(kfs) ==
    \A i \in 1..(Len(kfs) - 1) : kfs[i].time <= kfs[i + 1].time

\* C5: the frames of the keyframes one apply call writes into a channel are
\* non-decreasing in the order written, for every variant and duration.
C5_FramesNonDecreasing ==
    (last.op = "apply" /\ raised = NoError) =>
        \A ch \in Channels : NonDecreasing(WrittenNow(ch))

\* C6: BottomToCenter writes position (0, 2*height)@0, (0, 0)@30 and scale
\* 100%@0, 100%@30, whatever the width and the duration.
C6_BottomToCenter ==
    AfterApply("BottomToCenterAnimation") =>
        LET height == last.size[2] IN
        /\ WrittenNow("position") =
             << Keyframe(0, <<0, 2 * height>>), Keyframe(30, <<0, 0>>) >>
        /\ WrittenNow("scale") =
             << Keyframe(0, <<100, 100>>), Keyframe(30, <<100, 100>>) >>
        /\ \A ch \in Channels \ {"position", "scale"} : WrittenNow(ch) = <<>>

C6_Witness ==
    /\ AfterApply("BottomToCenterAnimation")
    /\ last.size = <<1, 2>>
    /\ WrittenNow("position")[1].value = <<0, 4>>

-----------------------------------------------------------------------------
(* Properties of a conversion *)

AfterAnimate == cpc \in {"animated", "assembled", "fixed", "done"}

\* The total duration of the animation asked for
RequestedDuration ==
    IF args.animation_type = "complex"
    THEN IF args.custom_effects = NoEffects THEN DefaultComplexDuration
         ELSE get(args.custom_effects, "duration", DefaultComplexDuration)
    ELSE BasicDuration

\* C7: the canvas size given to the variant is the document's own size when
\* both are nonzero and (512, 512) otherwise, so that BottomToCenter leaves
\* the position keyframes (0, (0, 2*height)) and (30, (0, 0)) on every layer
\* with a transform: (0, (0, 1024)) for a document of width 0 and height 0.
C7_CanvasSizeFallback ==
    (AfterAnimate /\ args.animation_type = "bottom_to_center") =>
        \A i \in 1..Len(doc.layers) :
            doc.layers[i].has_transform =>
                LET height == IF before.width = 0 \/ before.height = 0
                              THEN DefaultDim ELSE before.height
                IN  Written(before.layers[i].transform, doc.layers[i].transform,
                            "position")
                      = << Keyframe(0, <<0, 2 * height>>), Keyframe(30, <<0, 0>>) >>

\* C8: after an animation of total duration D is applied, the out point of
\* every layer is D.
C8_LayerOutPoints ==
    AfterAnimate =>
        \A i \in 1..Len(doc.layers) : doc.layers[i].out_point = RequestedDuration

\* C9: applying any animation to a document with no layers raises nothing
\* and changes no field of the document, its out point included.
C9_EmptyDocumentNoOp ==
    (AfterAnimate /\ before.layers = <<>>) => (cerr = NoError /\ doc = before)

OverriddenKeys == {"w", "h", "ip", "op", "fr", "meta"}

\* C10: whatever the serialized document holds under w, h, ip, op, fr and
\* meta, the assembled output has w and h equal to the resolved canvas size,
\* fr the frame rate, op the duration passed (the document's out point), ip 0
\* and meta the fixed metadata; every other top-level key is kept, with its
\* value as the assembly leaves it.
C10_OverrideInvariant ==
    cpc \in {"assembled", "fixed", "done"} =>
        /\ lottie_dict.w = (IF args.size = <<>> THEN 512 ELSE args.size[1])
        /\ lottie_dict.h = (IF args.size = <<>> THEN 512 ELSE args.size[2])
        /\ lottie_dict.fr = args.fps
        /\ lottie_dict.op = doc.out_point
        /\ lottie_dict.ip = 0
        /\ lottie_dict.meta = FixedMeta
        /\ DOMAIN lottie_dict = DOMAIN base \cup OverriddenKeys
        /\ \A k \in DOMAIN base \ (OverriddenKeys \cup {"layers"}) :
              lottie_dict[k] = base[k]
        /\ cpc = "assembled" => lottie_dict.layers = base.layers

C10_Witness ==
    /\ cpc = "assembled"
    /\ "meta" \in DOMAIN base
    /\ base.meta = ImportedMeta
    /\ base.ip = 5
    /\ base.fr = 24
    /\ base.op = 45
    /\ Len(base.layers) = 2
    /\ lottie_dict.meta = FixedMeta
    /\ lottie_dict.ip = 0

Output == cpc \in {"assembled", "fixed", "done"}

\* C11: in every output document ip is 0 and op is the total duration of the
\* animation asked for: for every animation type, for complex with a duration
\* given by the caller, and when the imported document has no layers.
C11_InOutPoints ==
    Output => (lottie_dict.ip = 0 /\ lottie_dict.op = RequestedDuration)

\* The key of a channel in the serialized transform
ChannelKey(ch) ==
    CASE ch = "position" -> "p" [] ch = "scale" -> "s" [] ch = "rotation" -> "r"
      [] ch = "opacity" -> "o" [] ch = "anchor_point" -> "a"

\* C12: in the final output, every channel of every layer that the animation
\* step wrote keyframes into (position included) is serialized as animated
\* and holds the channel's keyframes unchanged; no later step puts a static
\* value in its place.
C12_KeyframesSurvive ==
    cpc \in {"fixed", "done"} =>
        \A i \in 1..Len(doc.layers) : \A ch \in Channels :
            (/\ doc.layers[i].has_transform
             /\ Written(before.layers[i].transform, doc.layers[i].transform, ch) # <<>>)
            => LET out == lottie_dict.layers[i].ks[ChannelKey(ch)]
                   kfs == doc.layers[i].transform[ch].keyframes
               IN  /\ out.a = 1
                   /\ Len(out.k) = Len(kfs)
                   /\ out.k = kfs

\* A number cut to an integer toward zero (the numbers here are not negative)
Trunc(f) == f[1] \div f[2]

\* The canvas size the three rules give for a markup: the last two of the
\* four numbers of a viewBox; else the width and height attributes when both
\* are there; else the default
Extracted(svg) ==
    IF svg.viewBox # None /\ Len(svg.viewBox) = 4
    THEN <<Trunc(svg.viewBox[3]), Trunc(svg.viewBox[4])>>
    ELSE IF svg.width # None /\ svg.height # None
    THEN <<Trunc(svg.width), Trunc(svg.height)>>
    ELSE <<DefaultDim, DefaultDim>>

\* C13: when the caller gives no size, the canvas of the document is the one
\* the three rules derive from the markup: viewBox '0 0 100 200' gives
\* (100, 200), width '50.5' and height '60' give (50, 60), a viewBox of three
\* numbers falls through to the attributes, nothing gives (512, 512).
C13_DimensionsFromMarkup ==
    (cpc \in {"sized", "animated", "assembled", "fixed", "done"} /\ args.size = None) =>
        <<doc.width, doc.height>> = Extracted(args.base64_svg)

\* C14: a call with a frame rate that is not positive gets no further than
\* its start: it ends with a validation error before the SVG is decoded to
\* its temporary file and before anything is imported.
C14_CoreRejectsNonPositive ==
    args.fps <= 0 =>
        /\ cpc \in {"idle", "start", "failed"}
        /\ cpc = "failed" => cerr.type = "ValueError"

\* C16: a Rotate variant can be had for every positive duration D, and its
\* apply writes exactly 0 degrees at frame 0 and 360 degrees at frame D into
\* the rotation channel and nothing into any other channel.
C16_RotateSchedule ==
    /\ (last.op = "create" /\ last.name = "rotate") =>
          (raised = NoError /\ variant # NoVariant /\ variant.duration = last.duration)
    /\ (last.op = "apply" /\ last.name = "rotate") =>
          /\ WrittenNow("rotation") =
                << Keyframe(0, <<0>>), Keyframe(last.duration, <<360>>) >>
          /\ \A ch \in Channels \ {"rotation"} : WrittenNow(ch) = <<>>

WrittenInLayer(i, ch) ==
    Written(before.layers[i].transform, doc.layers[i].transform, ch)

\* C17: when shake is asked for, as the animation type or as a sub-effect of
\* complex, every layer with a transform gets position keyframes, one more
\* than the fixed loop count, all inside the range [start, end] the caller
\* gave, and shake itself writes no other channel.
C17_ShakePosition ==
    AfterAnimate =>
        \A i \in 1..Len(doc.layers) :
            doc.layers[i].has_transform =>
                /\ args.animation_type = "shake" =>
                      /\ WrittenInLayer(i, "position") # <<>>
                      /\ \A ch \in Channels \ {"position"} : WrittenInLayer(i, ch) = <<>>
                /\ uses_shake(args.animation_type, args.custom_effects) =>
                      LET params == effects_used(args.custom_effects)["shake"]
                          kfs == WrittenInLayer(i, "position")
                      IN  /\ Len(kfs) = ShakeFrames + 1
                          /\ \A j \in 1..Len(kfs) :
                                params.start <= kfs[j].time /\ kfs[j].time <= params.end
                          /\ WrittenInLayer(i, "anchor_point") = <<>>

\* The keys create_complex_animation knows
Recognized == {"duration"} \cup Range(SubEffects)

\* An effects map without the keys that are not recognized
Pruned(effects) == [k \in DOMAIN effects \cap Recognized |-> effects[k]]

\* C18: for a complex animation with an effects map, the keys that are no
\* recognized sub-effect change nothing: the document after the animation is
\* the one the same map without those keys gives, and the call raises
\* exactly the error, or none, that the map without those keys raises.
C18_UnknownKeysIgnored ==
    (args.animation_type = "complex" /\ args.custom_effects # NoEffects) =>
        LET pruned == Pruned(args.custom_effects) IN
        /\ AfterAnimate =>
              /\ create_complex_raises(before, pruned) = NoError
              /\ doc = create_complex_animation(before, pruned, rand)
        /\ (cpc = "failed" /\ cerr.type = "KeyError") =>
              cerr = create_complex_raises(doc, pruned)
        /\ (cpc = "failed" /\ create_complex_raises(doc, pruned) = NoError) =>
              cerr.type # "KeyError"

C18_Witness ==
    /\ cpc = "animated"
    /\ args.animation_type = "complex"
    /\ args.custom_effects # NoEffects
    /\ {"sparkle", "glow"} \subseteq DOMAIN args.custom_effects
    /\ Len(doc.layers) = 2
    /\ doc.layers[2].has_transform
    /\ WrittenInLayer(2, "opacity") = << Keyframe(0, <<0>>), Keyframe(45, <<100>>) >>
    /\ doc.out_point = 45

-----------------------------------------------------------------------------
(* Properties of a session with the factory *)

\* C19: get_available_types returns every registered name exactly once, in
\* the order of registration: fade_in, scale_up, bounce, bottom_to_center;
\* so every call returns the same sequence, whatever was called (or done to
\* an earlier list) in between.
C19_ListInRegistrationOrder ==
    last.op = "list" =>
        /\ listed.items = <<"fade_in", "scale_up", "bounce", "bottom_to_center">>
        /\ Len(listed.items) = Len(animations)
        /\ \A i \in 1..Len(animations) : listed.items[i] = animations[i].name
        /\ \A i, j \in 1..Len(listed.items) :
              listed.items[i] = listed.items[j] => i = j

C19_Witness ==
    /\ last.op = "list"
    /\ ncalls = 3
    /\ Len(instances) = 1
    /\ listed = new_list(<<"fade_in", "scale_up", "bounce", "bottom_to_center">>)

\* C20: whatever calls were made (creates that succeed or fail, lists,
\* applies, changes to a returned list), the registry maps the names it had
\* at startup to the same classes, and no two successful creates returned
\* the same instance.
C20_RegistryReadOnly ==
    /\ animations = RegisteredAnimations
    /\ \A i, j \in 1..Len(instances) : instances[i] = instances[j] => i = j

C20_Witness ==
    /\ last.op = "mutate"
    /\ listed.items = <<>>
    /\ Len(instances) = 2
    /\ ncalls = 4
    /\ animations = RegisteredAnimations

-----------------------------------------------------------------------------
(* Properties of the /convert handler *)

\* A request whose input fails validation: no body, no base64_svg, an
\* animation type that is not accepted, a size that is no pair of integers,
\* an fps that is no positive integer, or a base64_svg that does not decode
InvalidInput(data) ==
    \/ data.kind = "empty"
    \/ /\ data.kind = "object"
       /\ \/ data.base64_svg = NoSvg
          \/ data.base64_svg = NotBase64
          \/ animation_type_of(data) \notin Range(valid_animations)
          \/ data.size.given /\ (Len(data.size.items) # 2 \/ ~data.size.ints)
          \/ ~data.fps.is_int
          \/ data.fps.v <= 0

\* The conversion raised while animating, assembling or writing the document
FailedInConversion ==
    cpc = "failed" /\ cerr_at \in {"sized", "animated", "assembled", "fixed"}

Sized == cpc \in {"sized", "animated", "assembled", "fixed", "done"}

\* C21: in a conversion started by a request that passed validation, with
\* any size the validation lets through or none, the canvas width and height
\* are greater than 0, and they are the same everywhere: the w and h of the
\* output document and of its layers are the ones the layers were centred on.
C21_CanvasPositiveResolvedOnce ==
    hpc \in {"converting", "responded"} =>
        /\ Sized => (doc.width > 0 /\ doc.height > 0)
        /\ Sized =>
              \A i \in 1..Len(doc.layers) :
                  (doc.layers[i].has_transform /\ cpc = "sized") =>
                      doc.layers[i].transform.position.value
                          = <<doc.width \div 2, doc.height \div 2>>
        /\ Output => (lottie_dict.w = doc.width /\ lottie_dict.h = doc.height)
        /\ cpc \in {"fixed", "done"} =>
              \A i \in 1..Len(lottie_dict.layers) :
                  /\ lottie_dict.layers[i].w = doc.width
                  /\ lottie_dict.layers[i].h = doc.height

-----------------------------------------------------------------------------
(* Properties of the temporary files *)

\* svg_to_animated_lottie has returned or raised
Exited == cpc \in {"done", "failed"}

\* C22: once svg_to_animated_lottie has returned or raised, the temporary
\* SVG file does not exist, and if the call got as far as creating it the
\* file was removed; once the handler has responded, its temporary output
\* file does not exist, and if the handler created it the file was removed.
C22_TempFilesRemoved ==
    /\ Exited => temp_svg # "exists"
    /\ (Exited /\ cerr_at # "start") => temp_svg = "removed"
    /\ hpc = "responded" => temp_out # "exists"
    /\ (hpc = "responded" /\ cpc # "idle") => temp_out = "removed"
    /\ hpc = "idle" => temp_out = "none"

C22_Witness ==
    /\ hpc = "responded"
    /\ cpc = "failed"
    /\ cerr_at = "animated"
    /\ cerr.type = "OSError"
    /\ temp_svg = "removed"
    /\ temp_out = "removed"

-----------------------------------------------------------------------------
(* The pipeline against the factory *)

\* The names both AnimationFactory and create_basic_animation handle
SharedTypes == {"fade_in", "scale_up", "bounce"}

\* C23: for fade_in, scale_up and bounce the pipeline writes into every
\* channel of a layer's transform the keyframes that the factory's variant
\* of that name, created with duration 60, writes when applied to the same
\* transform; and for every name the /convert validation accepts, the
\* pipeline writes at least one keyframe on every layer with a transform.
C23_PipelineAgreesWithFactory ==
    AfterAnimate =>
        \A i \in 1..Len(doc.layers) :
            doc.layers[i].has_transform =>
                /\ args.animation_type \in SharedTypes =>
                      LET made == create_animation(animations, args.animation_type,
                                                   BasicDuration).variant
                          t == before.layers[i].transform
                          size == <<before.width, before.height>>
                      IN  \A ch \in Channels :
                              WrittenInLayer(i, ch) = Written(t, apply(made, t, size), ch)
                /\ args.animation_type \in Range(valid_animations) =>
                      \E ch \in Channels : WrittenInLayer(i, ch) # <<>>

=============================================================================
